---- MODULE Spec2Model ----
(***************************************************************************)
(* Backtest simulation engine of portfolio_lib                             *)
(* (services/backtesting/backtester.py): the per-date loop of              *)
(* BacktestingService._run_simulation, the trade execution of             *)
(* BacktestingService._execute_trades, the metrics and the result object   *)
(* of run_backtest, and the trade lists of the bundled strategies.         *)
(*                                                                         *)
(* Python floats are modelled as exact rationals <<numerator, denominator>>*)
(* in lowest terms with a positive denominator.  Dates are day numbers.    *)
(***************************************************************************)
EXTENDS Integers, Sequences, FiniteSets, TLC

VARIABLES
    strategy,             \* the strategy object handed to run_backtest
    strategy_config,      \* StrategyConfig
    backtest_config,      \* BacktestConfig
    initial_holdings,     \* symbol -> shares
    price_history,        \* symbol -> (date -> close), the provider's answer
    pc,                   \* position of the run: start, loop, trades, done, returned, error
    error,                \* kind of the exception that ended the run, or "none"
    simulation_dates,     \* sorted, filtered sequence of dates
    i,                    \* 1-based index of the date the loop is at
    current_holdings,
    cash,
    prev_portfolio_value,
    last_rebalance_date,
    portfolio_values,
    daily_returns,
    timestamps,
    holdings_history,
    rebalance_details,
    total_trades,
    winning_trades,
    losing_trades,
    executed_trades,
    warnings,             \* dates of the logger.warning records of skipped rebalances
    call,                 \* activation of _execute_trades during a rebalance
    execute_args,         \* arguments of the latest strategy.execute call
    performance_metrics,  \* dict of _calculate_performance_metrics
    result,               \* the BacktestResult object, once constructed
    serialized,           \* dict of BacktestResult.to_dict()
    first_run             \* what an earlier run on the same service object produced

inputs == <<strategy, strategy_config, backtest_config, initial_holdings, price_history>>
ledger == <<current_holdings, cash>>
counters == <<total_trades, winning_trades, losing_trades>>
series == <<portfolio_values, daily_returns, timestamps, holdings_history>>
returned == <<performance_metrics, result, serialized, first_run>>
vars == <<strategy, strategy_config, backtest_config, initial_holdings, price_history,
          pc, error, simulation_dates, i, current_holdings, cash,
          prev_portfolio_value, last_rebalance_date, portfolio_values,
          daily_returns, timestamps, holdings_history, rebalance_details,
          total_trades, winning_trades, losing_trades, executed_trades,
          warnings, call, execute_args, performance_metrics, result, serialized,
          first_run>>

----------------------------------------------------------------------------
(* Exact rational arithmetic standing for Python float arithmetic.         *)

Abs(n) == IF n < 0 THEN -n ELSE n

RECURSIVE GCD(_, _)
GCD(a, b) == IF b = 0 THEN a ELSE GCD(b, a % b)

Rat(n, d) == LET g == GCD(Abs(n), d) IN <<n \div g, d \div g>>

Zero == <<0, 1>>
One == <<1, 1>>
FromInt(n) == <<n, 1>>

RAdd(a, b) == Rat(a[1] * b[2] + b[1] * a[2], a[2] * b[2])
RSub(a, b) == Rat(a[1] * b[2] - b[1] * a[2], a[2] * b[2])
RMul(a, b) == Rat(a[1] * b[1], a[2] * b[2])
RDiv(a, b) == IF b[1] > 0 THEN Rat(a[1] * b[2], a[2] * b[1])
                          ELSE Rat(-(a[1] * b[2]), a[2] * (-b[1]))
RLt(a, b) == a[1] * b[2] < b[1] * a[2]
RLe(a, b) == a[1] * b[2] <= b[1] * a[2]
RMax(a, b) == IF RLt(a, b) THEN b ELSE a
RMin(a, b) == IF RLt(b, a) THEN b ELSE a

RECURSIVE RSum(_, _)
RSum(f, S) == IF S = {} THEN Zero
              ELSE LET x == CHOOSE y \in S : TRUE IN RAdd(f[x], RSum(f, S \ {x}))

RECURSIVE SortedSeq(_)
SortedSeq(S) == IF S = {} THEN <<>>
                ELSE LET m == CHOOSE x \in S : \A y \in S : x <= y
                     IN <<m>> \o SortedSeq(S \ {m})

----------------------------------------------------------------------------
(* Bounded inputs of run_backtest.                                         *)

MaxTrades == 2          \* trades a strategy emits over one run
MaxShares == 2          \* largest initial share count

None == <<>>
Half == <<1, 2>>

Symbols == {"A", "B"}

\* Trade(symbol, action, quantity): price and timestamp default to None;
\* quantity None stands for a value float() rejects
Trade(sym, act, qty) ==
    [symbol |-> sym, action |-> act, quantity |-> qty, price |-> None, timestamp |-> None]

TradePool ==
    { Trade("A", "buy", Half), Trade("A", "sell", One),
      Trade("B", "buy", <<3, 2>>), Trade("B", "sell", <<-1, 2>>),
      Trade("A", "hold", Half), Trade("A", "buy", None) }

RECURSIVE SeqsUpTo(_, _)
SeqsUpTo(S, n) == IF n = 0 THEN {<<>>}
                  ELSE LET shorter == SeqsUpTo(S, n - 1)
                       IN shorter \cup {Append(q, x) : q \in {r \in shorter : Len(r) = n - 1}, x \in S}

\* a strategy of the caller's is described by the trades it can emit and whether
\* it can raise
Strategies == { [name |-> "custom", trades |-> TradePool, raises |-> TRUE],
                [name |-> "custom", trades |-> {}, raises |-> TRUE],
                [name |-> "custom", trades |-> {}, raises |-> FALSE] }

\* the strategies of services/strategy, by the name their constructor sets
BundledNames == {"bollinger_attractiveness", "ml_attractiveness", "mean_reversion",
                 "Momentum"}

\* their indicator arithmetic is left open: any target weights, and any failure
BundledStrategies == { [name |-> n, raises |-> TRUE] : n \in BundledNames }

Frequencies == {"daily", "weekly", "monthly", "quarterly", "yearly"}

\* rows of one symbol: date -> close
SeriesOn(D, p) == [d \in D |-> p]

LedgerHistories ==
    LET a == { SeriesOn({1, 2, 3}, 1), (1 :> 1) @@ (2 :> 2) @@ (3 :> 1),
               SeriesOn({1, 3}, 1), SeriesOn({2, 3}, 2) }
        b == { SeriesOn({1, 2, 3}, 2), (1 :> 0) @@ (2 :> 2) @@ (3 :> 2) }
    IN { ("A" :> x) : x \in a } \cup { ("A" :> x) @@ ("B" :> y) : x \in a, y \in b }

DayPool == {0, 1, 7, 8, 31, 91}

CadenceHistories == { ("A" :> SeriesOn(D, 1)) : D \in SUBSET DayPool } \cup { <<>> }

Rates == { <<Zero, Zero>>, <<Half, Zero>>, <<Half, One>>, <<<<1, 20>>, Zero>> }

\* rates at which the winning test of a SELL does not hang on rounding
RatesOffBreakeven == { r \in Rates : RAdd(r[1], r[2]) # <<1, 20>> }

HoldingsPool == { ("A" :> FromInt(MaxShares)), ("A" :> One) @@ ("B" :> One), <<>> }

NoCall == [active |-> FALSE]

InitRun ==
    /\ pc = "start"
    /\ error = "none"
    /\ simulation_dates = <<>>
    /\ i = 0
    /\ current_holdings = <<>>
    /\ cash = Zero
    /\ prev_portfolio_value = Zero
    /\ last_rebalance_date = None
    /\ portfolio_values = <<>>
    /\ daily_returns = <<>>
    /\ timestamps = <<>>
    /\ holdings_history = <<>>
    /\ rebalance_details = <<>>
    /\ total_trades = 0
    /\ winning_trades = 0
    /\ losing_trades = 0
    /\ executed_trades = <<>>
    /\ warnings = <<>>
    /\ call = NoCall
    /\ execute_args = None
    /\ performance_metrics = None
    /\ result = None
    /\ serialized = None
    /\ first_run = None

\* inputs that exercise the ledger: consecutive dates, daily rebalancing
InitLedger ==
    /\ strategy = [name |-> "custom", trades |-> TradePool, raises |-> TRUE]
    /\ strategy_config = [name |-> "config", rebalance_frequency |-> "daily"]
    /\ price_history \in LedgerHistories
    /\ initial_holdings \in HoldingsPool \ {<<>>}
    /\ \E r \in Rates, c \in {1, 4} :
          backtest_config = [start_date |-> 0, end_date |-> 91,
                             initial_capital |-> FromInt(c),
                             commission |-> r[1], slippage |-> r[2],
                             benchmark |-> "B"]

\* inputs that exercise the calendar: sparse dates, every frequency
InitCadence ==
    /\ strategy \in Strategies \ {[name |-> "custom", trades |-> TradePool, raises |-> TRUE]}
    /\ strategy_config \in [name : {"config"}, rebalance_frequency : Frequencies]
    /\ price_history \in CadenceHistories
    /\ initial_holdings \in {("A" :> One), <<>>}
    /\ \E s \in {0, 1} :
          backtest_config = [start_date |-> s, end_date |-> 90 + s,
                             initial_capital |-> FromInt(2),
                             commission |-> Zero, slippage |-> Zero,
                             benchmark |-> "B"]

BundledHistories ==
    { ("A" :> ((1 :> 1) @@ (2 :> 2) @@ (3 :> 1))) @@ ("B" :> SeriesOn({1, 2, 3}, 2)),
      ("A" :> SeriesOn({1, 2, 3}, 1)),
      ("B" :> SeriesOn({1, 2, 3}, 2)) }

\* inputs that exercise the bundled strategies
InitBundled ==
    /\ strategy \in BundledStrategies
    /\ strategy_config = [name |-> "config", rebalance_frequency |-> "daily"]
    /\ price_history \in BundledHistories
    /\ initial_holdings \in HoldingsPool
    /\ backtest_config = [start_date |-> 0, end_date |-> 91,
                          initial_capital |-> FromInt(4),
                          commission |-> Zero, slippage |-> Zero,
                          benchmark |-> "B"]

Init == InitRun /\ (InitLedger \/ InitCadence \/ InitBundled)

----------------------------------------------------------------------------
(* run_backtest up to the first loop iteration.                            *)

\* the union of the indices, sorted, the period ignored
AlignedDates_NoFilter(ph, cfg) ==
    SortedSeq(UNION { DOMAIN ph[s] : s \in DOMAIN ph })

\* union of every symbol's index, sorted, filtered to [start_date, end_date]
AlignedDates(ph, cfg) ==
    LET all_dates == UNION { DOMAIN ph[s] : s \in DOMAIN ph }
    IN SortedSeq({ d \in all_dates : cfg.start_date <= d /\ d <= cfg.end_date })

\* today's closes of the symbols that have a row on that date
CurrentPrices(ph, d) ==
    [s \in { x \in DOMAIN ph : d \in DOMAIN ph[x] } |-> FromInt(ph[s][d])]

\* shares * price of the held symbols that have a price
PositionValues(holdings, prices) ==
    [s \in (DOMAIN holdings) \cap (DOMAIN prices) |-> RMul(holdings[s], prices[s])]

InvestedTotal(holdings, prices) ==
    LET position_values == PositionValues(holdings, prices)
    IN RSum(position_values, DOMAIN position_values)

\* without the floor at 0.0
InitialCash_Unfloored(capital, initial_value) == RSub(capital, initial_value)

InitialCash(capital, initial_value) == RMax(RSub(capital, initial_value), Zero)

RunBacktest ==
    /\ pc = "start"
    /\ IF DOMAIN price_history = {}
       THEN /\ pc' = "error"
            /\ error' = "No price history available for backtesting"
            /\ UNCHANGED <<simulation_dates, i, current_holdings, cash, prev_portfolio_value>>
       ELSE LET dates == AlignedDates(price_history, backtest_config)
            IN IF Len(dates) < 2
               THEN /\ pc' = "error"
                    /\ error' = "Insufficient data for backtesting period"
                    /\ UNCHANGED <<simulation_dates, i, current_holdings, cash,
                                   prev_portfolio_value>>
               ELSE /\ pc' = "loop"
                    /\ error' = error
                    /\ simulation_dates' = dates
                    /\ i' = 1
                    /\ current_holdings' = initial_holdings
                    /\ cash' = InitialCash(backtest_config.initial_capital,
                                  InvestedTotal(initial_holdings,
                                                CurrentPrices(price_history, dates[1])))
                    /\ prev_portfolio_value' = backtest_config.initial_capital
    /\ UNCHANGED <<inputs, returned, execute_args, last_rebalance_date, series, rebalance_details, counters,
                   executed_trades, warnings, call>>

----------------------------------------------------------------------------
(* One iteration of the per-date loop, up to the strategy call.            *)

current_date == simulation_dates[i]
current_prices == CurrentPrices(price_history, current_date)
\* the invested value alone, cash left out
portfolio_value_NoCash == InvestedTotal(current_holdings, current_prices)

portfolio_value == RAdd(cash, InvestedTotal(current_holdings, current_prices))

\* weights as shares of the whole portfolio value, cash included
CurrentWeights_OfTotal(holdings, prices) ==
    LET position_values == PositionValues(holdings, prices)
        total == RAdd(cash, RSum(position_values, DOMAIN position_values))
    IN [s \in DOMAIN holdings |->
           IF RLt(Zero, total) /\ s \in DOMAIN position_values
           THEN RDiv(position_values[s], total)
           ELSE Zero]

CurrentWeights(holdings, prices) ==
    LET position_values == PositionValues(holdings, prices)
        invested_total == RSum(position_values, DOMAIN position_values)
    IN [s \in DOMAIN holdings |->
           IF RLt(Zero, invested_total) /\ s \in DOMAIN position_values
           THEN RDiv(position_values[s], invested_total)
           ELSE Zero]

RebalanceFrequencyDays(frequency) ==
    CASE frequency = "daily" -> 1
      [] frequency = "weekly" -> 7
      [] frequency = "monthly" -> 30
      [] frequency = "quarterly" -> 90
      [] OTHER -> 30

\* rebalancing on every date
ShouldRebalance_Always(date, last, days) == TRUE

\* more than the period must have passed
ShouldRebalance_Strict(date, last, days) ==
    IF last = None THEN TRUE ELSE date - last[1] > days

ShouldRebalance(date, last, days) ==
    IF last = None THEN TRUE ELSE date - last[1] >= days

\* no exception for the last date
NotLastDay_Always(idx, n) == TRUE

NotLastDay(idx, n) == idx < n

Rebalancing ==
    /\ ShouldRebalance(current_date, last_rebalance_date,
                       RebalanceFrequencyDays(strategy_config.rebalance_frequency))
    /\ NotLastDay(i, Len(simulation_dates))

\* the daily return divides by the previous portfolio value
ZeroDivision == i > 1 /\ prev_portfolio_value = Zero

\* dict(current_holdings): the snapshot is a copy
Snapshot(holdings) == holdings

AppendSeries ==
    /\ portfolio_values' = Append(portfolio_values, portfolio_value)
    /\ timestamps' = Append(timestamps, current_date)
    /\ holdings_history' = Append(holdings_history, Snapshot(current_holdings))

\* a daily return for the first date too, against the initial capital
RecordDate_EveryDate ==
    /\ AppendSeries
    /\ daily_returns' = Append(daily_returns,
                               RDiv(RSub(portfolio_value, prev_portfolio_value),
                                    prev_portfolio_value))
    /\ prev_portfolio_value' = portfolio_value

RecordDate ==
    /\ AppendSeries
    /\ daily_returns' = IF i > 1
                        THEN Append(daily_returns,
                                    RDiv(RSub(portfolio_value, prev_portfolio_value),
                                         prev_portfolio_value))
                        ELSE daily_returns
    /\ prev_portfolio_value' = portfolio_value

\* next iteration, or the return of _run_simulation after the last date
NextDate ==
    IF i = Len(simulation_dates)
    THEN pc' = "done" /\ i' = i
    ELSE pc' = "loop" /\ i' = i + 1

\* (value - prev) / prev with prev = 0.0 raises outside the try block
StepZeroDivision ==
    /\ pc = "loop"
    /\ ZeroDivision
    /\ AppendSeries
    /\ pc' = "error"
    /\ error' = "ZeroDivisionError"
    /\ UNCHANGED <<inputs, returned, execute_args, simulation_dates, i, ledger, prev_portfolio_value,
                   last_rebalance_date, daily_returns, rebalance_details, counters,
                   executed_trades, warnings, call>>

StepNoRebalance ==
    /\ pc = "loop"
    /\ ~ZeroDivision
    /\ ~Rebalancing
    /\ RecordDate
    /\ NextDate
    /\ UNCHANGED <<inputs, returned, execute_args, error, simulation_dates, ledger, last_rebalance_date,
                   rebalance_details, counters, executed_trades, warnings, call>>

\* logger.warning(f"Strategy execution failed on {current_date}: {e}")
Warning(date, e) == [date |-> date, e |-> e]

\* a failed attempt counting as a rebalance
AfterFailure_Advance(last, date) == <<date>>

\* the except branch leaves last_rebalance_date as it was
AfterFailure(last, date) == last

\* every frame cut to the rows up to the date
TruncatedHistory_Whole(ph, date) == ph

\* {symbol: df[df.index <= current_date] for symbol, df in price_history.items()}
TruncatedHistory(ph, date) ==
    [s \in DOMAIN ph |-> [d \in { x \in DOMAIN ph[s] : x <= date } |-> ph[s][d]]]

\* the arguments of strategy.execute on the current date
ExecuteArgs ==
    [portfolio_weights |-> CurrentWeights(current_holdings, current_prices),
     price_history |-> TruncatedHistory(price_history, current_date),
     current_prices |-> current_prices,
     config |-> strategy_config]

\* no validation at all
InputsValid_Unchecked(portfolio_weights, history, prices) == TRUE

\* _validate_inputs raises ValueError unless the three dicts are non-empty
InputsValid(portfolio_weights, history, prices) ==
    /\ DOMAIN portfolio_weights # {}
    /\ DOMAIN history # {}
    /\ DOMAIN prices # {}

\* dict.get(symbol, 0.0)
Get(m, symbol) == IF symbol \in DOMAIN m THEN m[symbol] ELSE Zero

RAbs(a) == IF a[1] < 0 THEN <<-a[1], a[2]>> ELSE a

\* iteration order of a dict built from the holdings
SymbolOrder == <<"A", "B">>

KeysOf(S) == SelectSeq(SymbolOrder, LAMBDA x : x \in S)

\* iteration orders of a set of strings
Orderings(S) ==
    { q \in SeqsUpTo(S, Cardinality(S)) :
        Len(q) = Cardinality(S) /\ \A a, b \in 1..Len(q) : a # b => q[a] # q[b] }

\* datetime.now(): later than every date of the data
Now == 1 + CHOOSE d \in DayPool : \A e \in DayPool : e <= d

\* equal weights on the chosen symbols, 0.0 on the other symbols of the portfolio
EqualOn(chosen, held) ==
    [s \in chosen \cup held |->
        IF s \in chosen THEN Rat(1, Cardinality(chosen)) ELSE Zero]

Tiny == <<1, 1000000>>
Small == <<1, 10000>>

\* MomentumStrategy._generate_rebalance_trades, the symbols taken in the given order
RECURSIVE GenerateRebalanceTrades(_, _, _, _)
GenerateRebalanceTrades(order, current_weights, target_weights, prices) ==
    IF order = <<>> THEN <<>>
    ELSE LET symbol == Head(order)
             rest == GenerateRebalanceTrades(Tail(order), current_weights,
                                             target_weights, prices)
             weight_diff == RSub(Get(target_weights, symbol), Get(current_weights, symbol))
         IN IF ~RLt(Tiny, RAbs(weight_diff)) THEN rest
            ELSE IF symbol \notin DOMAIN prices THEN rest
            ELSE IF RLe(prices[symbol], Zero) THEN rest
            ELSE LET quantity == RDiv(RMul(weight_diff, One), prices[symbol])
                 IN <<[symbol |-> symbol,
                       action |-> IF RLt(Zero, weight_diff) THEN "buy" ELSE "sell",
                       quantity |-> RAbs(quantity),
                       price |-> prices[symbol],
                       timestamp |-> <<Now>>]>> \o rest

\* _build_trades_from_delta of the Bollinger (eps = 0) and ML (eps = 1e-6) strategies
RECURSIVE BuildTradesFromDelta(_, _, _, _)
BuildTradesFromDelta(order, current, target, eps) ==
    IF order = <<>> THEN <<>>
    ELSE LET tick == Head(order)
             rest == BuildTradesFromDelta(Tail(order), current, target, eps)
             delta == RSub(Get(target, tick), Get(current, tick))
         IN IF RLt(eps, delta) THEN <<Trade(tick, "buy", delta)>> \o rest
            ELSE IF RLt(delta, RSub(Zero, eps))
                 THEN <<Trade(tick, "sell", RSub(Zero, delta))>> \o rest
                 ELSE rest

\* the trade loop of MeanReversionStrategy.execute
RECURSIVE MeanReversionTrades(_, _, _)
MeanReversionTrades(order, portfolio_weights, target_weights) ==
    IF order = <<>> THEN <<>>
    ELSE LET symbol == Head(order)
             rest == MeanReversionTrades(Tail(order), portfolio_weights, target_weights)
             delta == RSub(Get(target_weights, symbol), portfolio_weights[symbol])
         IN IF RLt(Small, RAbs(delta))
            THEN <<[symbol |-> symbol,
                    action |-> IF RLt(Zero, delta) THEN "buy" ELSE "sell",
                    quantity |-> RAbs(delta),
                    price |-> Zero,
                    timestamp |-> <<Now>>]>> \o rest
            ELSE rest

StrategyResult(trades, new_weights) == [trades |-> trades, new_weights |-> new_weights]

\* the latest date of the rows handed to the strategy
LatestDate(history) ==
    LET dates == UNION { DOMAIN history[s] : s \in DOMAIN history }
    IN CHOOSE d \in dates : \A e \in dates : e <= d

\* what a deterministic strategy answers to these arguments
Answer(strat, args) == strat.script[LatestDate(args.price_history)]

\* the StrategyResults that execute can return on these arguments
Execute(strat, args, budget) ==
    LET w == args.portfolio_weights
        held == DOMAIN w
        known == DOMAIN args.price_history
        valid == InputsValid(w, args.price_history, args.current_prices)
    IN IF strat.name = "custom"
       THEN { StrategyResult(q, <<>>) : q \in SeqsUpTo(strat.trades, budget) }
       ELSE IF strat.name = "scripted"
       THEN IF Answer(strat, args).raises THEN {}
            ELSE { StrategyResult(Answer(strat, args).trades, <<>>) }
       ELSE IF ~valid THEN {}
       ELSE IF strat.name = "Momentum"
       THEN UNION { { StrategyResult(
                          GenerateRebalanceTrades(o, w, t, args.current_prices), t) :
                      o \in Orderings(DOMAIN t) } :
                    t \in { EqualOn(T, held) : T \in SUBSET known } }
       ELSE IF strat.name = "mean_reversion"
       THEN { StrategyResult(MeanReversionTrades(KeysOf(held), w, t), t) :
              t \in { EqualOn(T, held) : T \in (SUBSET (known \cup held)) \ {{}} } }
       ELSE { StrategyResult(
                  BuildTradesFromDelta(KeysOf(held), w, t,
                      IF strat.name = "ml_attractiveness" THEN Tiny ELSE Zero), t) :
              t \in { EqualOn(T, held) : T \in (SUBSET held) \ {{}} } }

\* whether execute can raise on these arguments
ExecuteRaises(strat, args) ==
    IF strat.name = "custom" THEN strat.raises
    ELSE IF strat.name = "scripted" THEN Answer(strat, args).raises
    ELSE IF InputsValid(args.portfolio_weights, args.price_history, args.current_prices)
         THEN strat.raises
         ELSE TRUE

\* strategy.execute raises: warning logged, continue with the next date
StepStrategyRaises ==
    /\ pc = "loop"
    /\ ~ZeroDivision
    /\ Rebalancing
    /\ ExecuteRaises(strategy, ExecuteArgs)
    /\ execute_args' = ExecuteArgs
    /\ RecordDate
    /\ warnings' = Append(warnings, Warning(current_date, "strategy"))
    /\ last_rebalance_date' = AfterFailure(last_rebalance_date, current_date)
    /\ NextDate
    /\ UNCHANGED <<inputs, returned, error, simulation_dates, ledger,
                   rebalance_details, counters, executed_trades, call>>

\* trades the strategy emitted in the rebalances recorded so far
RECURSIVE Emitted(_)
Emitted(details) == IF details = <<>> THEN 0
                    ELSE Len(Head(details).trades) + Emitted(Tail(details))

\* new_holdings = current_holdings: the call works on the caller's dict
CopyHoldings_Alias(holdings) == [aliased |-> TRUE, map |-> holdings]

\* new_holdings = current_holdings.copy(): the call works on a copy
CopyHoldings(holdings) == [aliased |-> FALSE, map |-> holdings]

\* strategy.execute returns; _execute_trades is entered with its trade list
StepStrategyReturns ==
    /\ pc = "loop"
    /\ ~ZeroDivision
    /\ Rebalancing
    /\ RecordDate
    /\ execute_args' = ExecuteArgs
    /\ \E strategy_result \in Execute(strategy, ExecuteArgs,
                                       MaxTrades - Emitted(rebalance_details)) :
          call' = [active |-> TRUE,
                   strategy_result |-> strategy_result,
                   current_weights |-> CurrentWeights(current_holdings, current_prices),
                   trades |-> strategy_result.trades,
                   new_holdings |-> CopyHoldings(current_holdings),
                   new_cash |-> cash,
                   num_trades |-> 0,
                   winning_trades |-> 0,
                   losing_trades |-> 0,
                   executed |-> <<>>,
                   portfolio_value |-> portfolio_value,
                   trade_date |-> current_date]
    /\ pc' = "trades"
    /\ UNCHANGED <<inputs, returned, error, simulation_dates, i, ledger, last_rebalance_date,
                   rebalance_details, counters, executed_trades, warnings>>

----------------------------------------------------------------------------
(* _execute_trades: one loop iteration per step, then the return.          *)

WeightFraction(quantity) == RMax(Zero, RMin(One, quantity))

DollarValue(weight_fraction, value) == RMul(weight_fraction, value)

Cost(trade_value, rate) == RMul(trade_value, rate)

\* buying without looking at the cash
CanBuy_NoCashCheck(new_cash, total_needed, shares) == RLt(Zero, shares)

CanBuy(new_cash, total_needed, shares) ==
    RLe(total_needed, new_cash) /\ RLt(Zero, shares)

\* selling the requested amount whatever is held
SharesToSell_NoCap(current_shares, shares) == shares

SharesToSell(current_shares, shares) == RMin(current_shares, shares)

\* the costs of a SELL not taken from its proceeds
Proceeds_Gross(gross_value, total_cost) == gross_value

Proceeds(gross_value, total_cost) == RSub(gross_value, total_cost)

\* proceeds > gross_value * 0.95, evaluated in binary floating point: the
\* possible results. When the costs are 5% of the gross value the two sides
\* differ by the rounding of the products only, and either can be the larger
\* (gross 3.0 at commission 0.05: 2.85 > 2.8499999999999996; gross 2.0: 1.9 = 1.9).
Winning(proceeds, gross_value) ==
    LET breakeven == RMul(gross_value, <<19, 20>>)
    IN IF proceeds = breakeven THEN {TRUE, FALSE} ELSE {RLt(breakeven, proceeds)}

Held(holdings, symbol) == IF symbol \in DOMAIN holdings THEN holdings[symbol] ELSE Zero

\* what the loop body does with one trade, given the running holdings and cash
TradeOutcome(trade, holdings, new_cash, prices, config, value) ==
    IF trade.symbol \notin DOMAIN prices THEN [kind |-> "skip", why |-> "no price"]
    ELSE LET price == prices[trade.symbol] IN
    IF RLe(price, Zero) THEN [kind |-> "skip", why |-> "price <= 0"]
    ELSE IF trade.quantity = None THEN [kind |-> "raise"]
    ELSE LET weight_fraction == WeightFraction(trade.quantity)
             dollar_value == DollarValue(weight_fraction, value) IN
    IF RLe(dollar_value, Zero) THEN [kind |-> "skip", why |-> "dollar value <= 0"]
    ELSE LET shares == RDiv(dollar_value, price)
             trade_value == RMul(shares, price)
             commission == Cost(trade_value, config.commission)
             slippage == Cost(trade_value, config.slippage)
             total_cost == RAdd(commission, slippage) IN
    IF trade.action = "buy"
    THEN LET total_needed == RAdd(trade_value, total_cost) IN
         IF CanBuy(new_cash, total_needed, shares)
         THEN [kind |-> "buy", shares |-> shares, requested |-> shares,
               weight_fraction |-> weight_fraction,
               price |-> price, gross_value |-> trade_value, commission |-> commission,
               slippage |-> slippage, total_cost |-> total_cost,
               net_cash_delta |-> RSub(Zero, total_needed)]
         ELSE [kind |-> "skip", why |-> "insufficient cash"]
    ELSE IF trade.action = "sell"
    THEN LET current_shares == Held(holdings, trade.symbol)
             shares_to_sell == SharesToSell(current_shares, shares) IN
         IF RLt(Zero, shares_to_sell)
         THEN LET gross_value == RMul(shares_to_sell, price)
                  sell_commission == Cost(gross_value, config.commission)
                  sell_slippage == Cost(gross_value, config.slippage)
                  sell_cost == RAdd(sell_commission, sell_slippage)
              IN [kind |-> "sell", shares |-> shares_to_sell, requested |-> shares,
                  weight_fraction |-> weight_fraction, price |-> price,
                  gross_value |-> gross_value, commission |-> sell_commission,
                  slippage |-> sell_slippage, total_cost |-> sell_cost,
                  net_cash_delta |-> Proceeds(gross_value, sell_cost)]
         ELSE [kind |-> "skip", why |-> "nothing to sell"]
    ELSE [kind |-> "skip", why |-> "no action"]

trade == Head(call.trades)

\* every trade judged against the cash before the rebalance
outcome_Committed ==
    TradeOutcome(trade, call.new_holdings.map, cash, current_prices,
                 backtest_config, call.portfolio_value)

\* sizing against the value of the running cash and holdings
outcome_Running ==
    TradeOutcome(trade, call.new_holdings.map, call.new_cash, current_prices,
                 backtest_config,
                 RAdd(call.new_cash, InvestedTotal(call.new_holdings.map, current_prices)))

outcome == TradeOutcome(trade, call.new_holdings.map, call.new_cash, current_prices,
                        backtest_config, call.portfolio_value)

\* logging the requested shares instead of the shares traded
ExecutedEntry_Requested(t, o, date) ==
    [symbol |-> t.symbol, action |-> t.action, quantity_shares |-> o.requested,
     weight_fraction |-> o.weight_fraction, price |-> o.price,
     gross_value |-> o.gross_value, commission |-> o.commission,
     slippage |-> o.slippage, total_cost |-> o.total_cost,
     net_cash_delta |-> o.net_cash_delta,
     timestamp |-> IF t.timestamp # None THEN t.timestamp[1] ELSE date]

ExecutedEntry(t, o, date) ==
    [symbol |-> t.symbol, action |-> t.action, quantity_shares |-> o.shares,
     weight_fraction |-> o.weight_fraction, price |-> o.price,
     gross_value |-> o.gross_value, commission |-> o.commission,
     slippage |-> o.slippage, total_cost |-> o.total_cost,
     net_cash_delta |-> o.net_cash_delta,
     timestamp |-> IF t.timestamp # None THEN t.timestamp[1] ELSE date]

SetShares(holdings, symbol, shares) ==
    [s \in (DOMAIN holdings) \cup {symbol} |-> IF s = symbol THEN shares ELSE holdings[s]]

\* a write to new_holdings; it reaches current_holdings only if the two are one object
WriteHoldings(shares) ==
    LET map == SetShares(call.new_holdings.map, trade.symbol, shares)
    IN /\ \E winning \in Winning(outcome.net_cash_delta, outcome.gross_value) :
            call' = [call EXCEPT !.trades = Tail(@),
                               !.new_holdings.map = map,
                               !.new_cash = RAdd(@, outcome.net_cash_delta),
                               !.num_trades = @ + 1,
                               !.winning_trades =
                                   IF outcome.kind = "sell" /\ winning THEN @ + 1 ELSE @,
                               !.losing_trades =
                                   IF outcome.kind = "sell" /\ ~winning THEN @ + 1 ELSE @,
                               !.executed = Append(@, ExecutedEntry(trade, outcome,
                                                                    call.trade_date))]
       /\ current_holdings' = IF call.new_holdings.aliased THEN map ELSE current_holdings

InTrades == pc = "trades" /\ call.trades # <<>>

UnchangedByTrade ==
    UNCHANGED <<inputs, returned, execute_args, pc, error, simulation_dates, i, cash, prev_portfolio_value,
                last_rebalance_date, series, rebalance_details, counters,
                executed_trades, warnings>>

\* break: a skipped trade ends the loop
AfterSkip_Break(trades) == <<>>

\* continue: the loop goes on with the rest of the list
AfterSkip(trades) == Tail(trades)

\* a skipped trade counted as a trade
SkipTrade_Counted ==
    /\ InTrades
    /\ outcome.kind = "skip"
    /\ call' = [call EXCEPT !.trades = AfterSkip(@), !.num_trades = @ + 1]
    /\ UNCHANGED current_holdings
    /\ UnchangedByTrade

SkipTrade ==
    /\ InTrades
    /\ outcome.kind = "skip"
    /\ call' = [call EXCEPT !.trades = AfterSkip(@)]
    /\ UNCHANGED current_holdings
    /\ UnchangedByTrade

BuyTrade ==
    /\ InTrades
    /\ outcome.kind = "buy"
    /\ WriteHoldings(RAdd(Held(call.new_holdings.map, trade.symbol), outcome.shares))
    /\ UnchangedByTrade

SellTrade ==
    /\ InTrades
    /\ outcome.kind = "sell"
    /\ WriteHoldings(RSub(Held(call.new_holdings.map, trade.symbol), outcome.shares))
    /\ UnchangedByTrade

\* float(trade.quantity) raises inside the try block: warning, next date
TradeRaises ==
    /\ InTrades
    /\ outcome.kind = "raise"
    /\ warnings' = Append(warnings, Warning(current_date, "TypeError"))
    /\ last_rebalance_date' = AfterFailure(last_rebalance_date, current_date)
    /\ call' = NoCall
    /\ NextDate
    /\ UNCHANGED <<inputs, returned, execute_args, error, simulation_dates, ledger, prev_portfolio_value,
                   series, rebalance_details, counters, executed_trades>>

\* _iso: a datetime as its ISO-8601 string
Iso(ts) == [isoformat |-> ts]

\* _serialize_trade: the fields of the strategy's Trade, the date where it has no timestamp
SerializeTrade(t, date) ==
    [symbol |-> t.symbol, action |-> t.action, quantity |-> t.quantity,
     price |-> t.price,
     timestamp |-> Iso(IF t.timestamp # None THEN t.timestamp[1] ELSE date)]

SerializeTrades(trades, date) ==
    [k \in 1..Len(trades) |-> SerializeTrade(trades[k], date)]

\* the date's snapshot retaken after its trades
ReturnTrades_Resnapshot ==
    /\ pc = "trades"
    /\ call.trades = <<>>
    /\ current_holdings' = call.new_holdings.map
    /\ cash' = call.new_cash
    /\ total_trades' = total_trades + call.num_trades
    /\ winning_trades' = winning_trades + call.winning_trades
    /\ losing_trades' = losing_trades + call.losing_trades
    /\ executed_trades' = executed_trades \o call.executed
    /\ rebalance_details' = Append(rebalance_details,
                                   [timestamp |-> current_date,
                                    weights |-> call.current_weights,
                                    target_weights |-> call.strategy_result.new_weights,
                                    trades |-> SerializeTrades(call.strategy_result.trades,
                                                               current_date)])
    /\ last_rebalance_date' = <<current_date>>
    /\ call' = NoCall
    /\ NextDate
    /\ holdings_history' = [holdings_history EXCEPT ![i] = call.new_holdings.map]
    /\ UNCHANGED <<inputs, returned, execute_args, error, simulation_dates,
                   prev_portfolio_value, portfolio_values, timestamps, daily_returns,
                   warnings>>

\* _execute_trades returns; the caller takes over its results and records the rebalance
ReturnTrades ==
    /\ pc = "trades"
    /\ call.trades = <<>>
    /\ current_holdings' = call.new_holdings.map
    /\ cash' = call.new_cash
    /\ total_trades' = total_trades + call.num_trades
    /\ winning_trades' = winning_trades + call.winning_trades
    /\ losing_trades' = losing_trades + call.losing_trades
    /\ executed_trades' = executed_trades \o call.executed
    /\ rebalance_details' = Append(rebalance_details,
                                   [timestamp |-> current_date,
                                    weights |-> call.current_weights,
                                    target_weights |-> call.strategy_result.new_weights,
                                    trades |-> SerializeTrades(call.strategy_result.trades,
                                                               current_date)])
    /\ last_rebalance_date' = <<current_date>>
    /\ call' = NoCall
    /\ NextDate
    /\ UNCHANGED <<inputs, returned, execute_args, error, simulation_dates, prev_portfolio_value, series, warnings>>

----------------------------------------------------------------------------
(* run_backtest after the simulation: the metrics and the result object.   *)
(* Values that need not be rational are kept as terms.                     *)

Exact(r) == [kind |-> "exact", value |-> r]
NaN == [kind |-> "nan"]
Infinite(sign) == [kind |-> "inf", sign |-> sign]
\* std(returns) * sqrt(252) of returns that are not all the same
Deviation(returns) == [kind |-> "std * sqrt(252)", of |-> returns]
\* base ** exponent - 1
PowerLessOne(base, exponent) ==
    IF base = One THEN Exact(Zero)
    ELSE [kind |-> "power - 1", base |-> base, exponent |-> exponent]
\* (mean(returns) * 252) / volatility
Quotient(returns, volatility) ==
    [kind |-> "mean * 252 / volatility", of |-> returns, volatility |-> volatility]

TradingDays == 252

\* pandas Series.std() * sqrt(252): the sample deviation (ddof = 1) is NaN for a
\* single value and 0.0 for values that are all the same
Volatility(returns) ==
    IF Len(returns) < 2 THEN NaN
    ELSE IF \A k \in 1..Len(returns) : returns[k] = returns[1] THEN Exact(Zero)
    ELSE Deviation(returns)

\* volatility > 0: false for 0.0 and for NaN
Positive(x) == x.kind = "std * sqrt(252)"

RECURSIVE MaxDrawdownFrom(_, _, _)
MaxDrawdownFrom(values, peak, max_dd) ==
    IF values = <<>> THEN max_dd
    ELSE LET value == Head(values)
             p == IF RLt(peak, value) THEN value ELSE peak
             drawdown == RDiv(RSub(p, value), p)
         IN MaxDrawdownFrom(Tail(values), p, RMax(max_dd, drawdown))

CalculateMaxDrawdown(values) ==
    IF values = <<>> THEN Zero ELSE MaxDrawdownFrom(values, values[1], Zero)

\* the closes of the benchmark inside the period, in date order
BenchmarkPrices(ph, cfg) ==
    LET rows == ph[cfg.benchmark]
        dates == SortedSeq({ d \in DOMAIN rows : cfg.start_date <= d /\ d <= cfg.end_date })
    IN [k \in 1..Len(dates) |-> FromInt(rows[dates[k]])]

CalculateBenchmarkMetrics(ph, cfg) ==
    LET default == [benchmark_return |-> Exact(Zero), alpha |-> Zero, beta |-> One]
    IN IF cfg.benchmark \notin DOMAIN ph THEN default
       ELSE LET benchmark_prices == BenchmarkPrices(ph, cfg)
                first == benchmark_prices[1]
                last == benchmark_prices[Len(benchmark_prices)]
            IN IF Len(benchmark_prices) < 2 THEN default
               ELSE [benchmark_return |->
                         IF first # Zero THEN Exact(RDiv(RSub(last, first), first))
                         ELSE IF last = first THEN NaN
                         ELSE Infinite(IF RLt(first, last) THEN 1 ELSE -1),
                     alpha |-> Zero, beta |-> One]

EmptyPerformanceMetrics ==
    [total_return |-> Zero, annualized_return |-> Exact(Zero),
     volatility |-> Exact(Zero), sharpe_ratio |-> Exact(Zero), max_drawdown |-> Zero,
     benchmark_return |-> Exact(Zero), alpha |-> Zero, beta |-> One]

\* the metrics of a run with a zero first portfolio value cannot be computed
MetricsDivideByZero(values, returns) == returns # <<>> /\ values[1] = Zero

CalculatePerformanceMetrics(values, returns, cfg, ph) ==
    IF returns = <<>> THEN EmptyPerformanceMetrics
    ELSE LET total_return == RDiv(RSub(values[Len(values)], values[1]), values[1])
             days == Len(values)
             volatility == Volatility(returns)
         IN [total_return |-> total_return,
             annualized_return |->
                 PowerLessOne(RAdd(One, total_return), Rat(TradingDays, days)),
             volatility |-> volatility,
             sharpe_ratio |->
                 IF Positive(volatility)
                 THEN Quotient(returns, volatility)
                 ELSE Exact(Zero),
             max_drawdown |-> CalculateMaxDrawdown(values)]
            @@ CalculateBenchmarkMetrics(ph, cfg)

\* the dict _run_simulation returns
SimulationResult ==
    [portfolio_values |-> portfolio_values, daily_returns |-> daily_returns,
     timestamps |-> timestamps, total_trades |-> total_trades,
     winning_trades |-> winning_trades, losing_trades |-> losing_trades,
     executed_trades |-> executed_trades, holdings_history |-> holdings_history,
     rebalance_details |-> rebalance_details]

\* the fields of the BacktestResult dataclass
BacktestResultFields ==
    {"strategy_name", "config", "start_date", "end_date",
     "total_return", "annualized_return", "volatility", "sharpe_ratio", "max_drawdown",
     "benchmark_return", "alpha", "beta",
     "total_trades", "winning_trades", "losing_trades",
     "daily_returns", "portfolio_values", "timestamps"}

\* the fields that have a default
BacktestResultDefaults ==
    [daily_returns |-> <<>>, portfolio_values |-> <<>>, timestamps |-> <<>>]

\* the keyword arguments of the BacktestResult(...) call
Keywords(metrics) ==
    [strategy_name |-> strategy_config.name, config |-> backtest_config,
     start_date |-> backtest_config.start_date, end_date |-> backtest_config.end_date]
    @@ metrics @@ SimulationResult

\* a dataclass constructor rejects a keyword that names no field and a missing
\* field that has no default
Constructible(kwargs) ==
    /\ DOMAIN kwargs \subseteq BacktestResultFields
    /\ BacktestResultFields \ DOMAIN BacktestResultDefaults \subseteq DOMAIN kwargs

\* the metrics are computed and the result object is constructed and returned
BuildResult ==
    /\ pc = "done"
    /\ IF MetricsDivideByZero(portfolio_values, daily_returns)
       THEN /\ pc' = "error"
            /\ error' = "ZeroDivisionError"
            /\ UNCHANGED <<performance_metrics, result>>
       ELSE LET metrics == CalculatePerformanceMetrics(portfolio_values, daily_returns,
                                                       backtest_config, price_history)
                kwargs == Keywords(metrics)
            IN /\ performance_metrics' = metrics
               /\ IF Constructible(kwargs)
                  THEN /\ pc' = "returned"
                       /\ error' = error
                       /\ result' = kwargs @@ BacktestResultDefaults
                  ELSE /\ pc' = "error"
                       /\ error' = "TypeError"
                       /\ result' = result
    /\ UNCHANGED <<inputs, serialized, first_run, execute_args, simulation_dates, i, ledger,
                   prev_portfolio_value, last_rebalance_date, series, rebalance_details,
                   counters, executed_trades, warnings, call>>

Next ==
    \/ RunBacktest
    \/ StepZeroDivision
    \/ StepNoRebalance
    \/ StepStrategyRaises
    \/ StepStrategyReturns
    \/ SkipTrade
    \/ BuyTrade
    \/ SellTrade
    \/ TradeRaises
    \/ ReturnTrades
    \/ BuildResult

Spec == Init /\ [][Next]_vars

----------------------------------------------------------------------------
(* Two runs of run_backtest on one BacktestingService object, with a       *)
(* strategy whose answer is a function of its arguments.                   *)

Answers ==
    { [raises |-> TRUE, trades |-> <<>>], [raises |-> FALSE, trades |-> <<>>] }
    \cup { [raises |-> FALSE, trades |-> <<t>>] :
             t \in { Trade("A", "buy", Half), Trade("A", "sell", One),
                     Trade("B", "sell", <<-1, 2>>), Trade("A", "buy", None) } }

ScriptedStrategies == { [name |-> "scripted", script |-> f] : f \in [{1, 2} -> Answers] }

InitTwice ==
    /\ InitRun
    /\ strategy \in ScriptedStrategies
    /\ strategy_config = [name |-> "config", rebalance_frequency |-> "daily"]
    /\ price_history \in LedgerHistories
    /\ initial_holdings \in HoldingsPool \ {<<>>}
    /\ \E r \in RatesOffBreakeven :
          backtest_config = [start_date |-> 0, end_date |-> 91,
                             initial_capital |-> One,
                             commission |-> r[1], slippage |-> r[2],
                             benchmark |-> "B"]

\* what a finished run leaves: how it ended, its values, counters and metrics
Produced ==
    [pc |-> pc, error |-> error, portfolio_values |-> portfolio_values,
     total_trades |-> total_trades, winning_trades |-> winning_trades,
     losing_trades |-> losing_trades, performance_metrics |-> performance_metrics]

\* a list that outlives the call
Fresh_Kept(list) == list

\* a list local to _run_simulation starts empty in every call
Fresh(list) == <<>>

\* run_backtest is called again on the same object with the same arguments
RunAgain ==
    /\ pc \in {"error", "returned"}
    /\ first_run = None
    /\ first_run' = Produced
    /\ pc' = "start"
    /\ error' = "none"
    /\ simulation_dates' = <<>>
    /\ i' = 0
    /\ current_holdings' = <<>>
    /\ cash' = Zero
    /\ prev_portfolio_value' = Zero
    /\ last_rebalance_date' = None
    /\ portfolio_values' = Fresh(portfolio_values)
    /\ daily_returns' = Fresh(daily_returns)
    /\ timestamps' = Fresh(timestamps)
    /\ holdings_history' = Fresh(holdings_history)
    /\ rebalance_details' = Fresh(rebalance_details)
    /\ executed_trades' = Fresh(executed_trades)
    /\ total_trades' = 0
    /\ winning_trades' = 0
    /\ losing_trades' = 0
    /\ call' = NoCall
    /\ execute_args' = None
    /\ performance_metrics' = None
    /\ result' = None
    /\ UNCHANGED <<inputs, serialized, warnings>>

NextTwice == Next \/ RunAgain

SpecTwice == InitTwice /\ [][NextTwice]_vars

----------------------------------------------------------------------------
(* BacktestResult.to_dict, applied to result objects built field by field. *)

\* BacktestConfig.to_dict
ConfigToDict(cfg) ==
    [start_date |-> Iso(cfg.start_date), end_date |-> Iso(cfg.end_date),
     initial_capital |-> cfg.initial_capital, commission |-> cfg.commission,
     slippage |-> cfg.slippage, benchmark |-> cfg.benchmark]

\* BacktestResult.to_dict
ToDictOf(r) ==
    [strategy_name |-> r.strategy_name,
     config |-> ConfigToDict(r.config),
     start_date |-> Iso(r.start_date),
     end_date |-> Iso(r.end_date),
     total_return |-> r.total_return,
     annualized_return |-> r.annualized_return,
     volatility |-> r.volatility,
     sharpe_ratio |-> r.sharpe_ratio,
     max_drawdown |-> r.max_drawdown,
     benchmark_return |-> r.benchmark_return,
     alpha |-> r.alpha,
     beta |-> r.beta,
     total_trades |-> r.total_trades,
     winning_trades |-> r.winning_trades,
     losing_trades |-> r.losing_trades,
     daily_returns |-> r.daily_returns,
     portfolio_values |-> r.portfolio_values,
     timestamps |-> [k \in 1..Len(r.timestamps) |-> Iso(r.timestamps[k])]]

\* BacktestResult objects, one value per field of the dataclass
ResultPool ==
    [strategy_name : {"config"},
     config : {[start_date |-> 0, end_date |-> 91, initial_capital |-> One,
                commission |-> Zero, slippage |-> Half, benchmark |-> "B"]},
     start_date : {0}, end_date : {91},
     total_return : {Zero, Half},
     annualized_return : {Exact(Zero), PowerLessOne(<<3, 2>>, Rat(TradingDays, 2))},
     volatility : {Exact(Zero), NaN},
     sharpe_ratio : {Exact(Zero)},
     max_drawdown : {Zero},
     benchmark_return : {Exact(Zero)},
     alpha : {Zero}, beta : {One},
     total_trades : 0..1, winning_trades : 0..1, losing_trades : {0},
     daily_returns : {<<>>, <<Half>>},
     portfolio_values : {<<One>>, <<One, <<3, 2>>>>},
     timestamps : {<<1>>, <<1, 2>>}]

InitToDict ==
    /\ strategy = [name |-> "custom", trades |-> {}, raises |-> FALSE]
    /\ strategy_config = [name |-> "config", rebalance_frequency |-> "daily"]
    /\ initial_holdings = <<>>
    /\ price_history = <<>>
    /\ pc = "returned"
    /\ error = "none"
    /\ simulation_dates = <<>>
    /\ i = 0
    /\ current_holdings = <<>>
    /\ cash = Zero
    /\ prev_portfolio_value = Zero
    /\ last_rebalance_date = None
    /\ portfolio_values = <<>>
    /\ daily_returns = <<>>
    /\ timestamps = <<>>
    /\ holdings_history = <<>>
    /\ rebalance_details = <<>>
    /\ total_trades = 0
    /\ winning_trades = 0
    /\ losing_trades = 0
    /\ executed_trades = <<>>
    /\ warnings = <<>>
    /\ call = NoCall
    /\ execute_args = None
    /\ performance_metrics = None
    /\ result \in ResultPool
    /\ backtest_config = result.config
    /\ serialized = None
    /\ first_run = None

ToDict ==
    /\ result # None
    /\ serialized = None
    /\ serialized' = ToDictOf(result)
    /\ UNCHANGED <<inputs, pc, error, simulation_dates, i, ledger, prev_portfolio_value,
                   last_rebalance_date, series, rebalance_details, counters,
                   executed_trades, warnings, call, execute_args, performance_metrics,
                   result, first_run>>

SpecToDict == InitToDict /\ [][ToDict]_vars

----------------------------------------------------------------------------
(* Properties.                                                             *)

Last(q) == q[Len(q)]

Priced(symbol, date) ==
    symbol \in DOMAIN price_history /\ date \in DOMAIN price_history[symbol]

Close(symbol, date) == FromInt(price_history[symbol][date])

\* value of a holdings map at the closes of a date, unpriced symbols counting 0
RECURSIVE ValueOn(_, _, _)
ValueOn(holdings, S, date) ==
    IF S = {} THEN Zero
    ELSE LET s == CHOOSE x \in S : TRUE
             rest == ValueOn(holdings, S \ {s}, date)
         IN IF Priced(s, date) THEN RAdd(RMul(holdings[s], Close(s, date)), rest) ELSE rest

\* net cash of the trades of a log
RECURSIVE Deltas(_)
Deltas(log) ==
    IF log = <<>> THEN Zero ELSE RAdd(Head(log).net_cash_delta, Deltas(Tail(log)))

StartingCash ==
    LET v == ValueOn(initial_holdings, DOMAIN initial_holdings, simulation_dates[1])
        c == backtest_config.initial_capital
    IN IF RLe(v, c) THEN RSub(c, v) ELSE Zero

\* C1: the portfolio value recorded for a date is the cash of that moment
\* (starting cash plus the net cash deltas of the trades executed on earlier
\* dates, which are the trades logged so far) plus shares * close over the held
\* symbols that have a price on that date, and it stays as recorded.
C1_Conservation ==
    [][ /\ \A k \in 1..Len(portfolio_values) :
              /\ Len(portfolio_values') >= k
              /\ portfolio_values'[k] = portfolio_values[k]
        /\ Len(portfolio_values') > Len(portfolio_values) =>
              /\ Len(portfolio_values') = Len(portfolio_values) + 1
              /\ cash = RAdd(StartingCash, Deltas(executed_trades))
              /\ Last(holdings_history') = current_holdings
              /\ Last(portfolio_values') =
                    RAdd(cash, ValueOn(current_holdings, DOMAIN current_holdings,
                                       Last(timestamps')))
      ]_vars

\* after trades on an earlier date, the last date was recorded with a held
\* symbol that has no price that day
C1_Witness ==
    /\ pc = "done"
    /\ executed_trades # <<>>
    /\ \E s \in DOMAIN Last(holdings_history) :
          ~Priced(s, Last(timestamps)) /\ RLt(Zero, Last(holdings_history)[s])

\* C2: the ledger cash, committed or running inside a rebalance, is never negative.
C2_CashNonNegative ==
    /\ RLe(Zero, cash)
    /\ call.active => RLe(Zero, call.new_cash)

NonNegative(holdings) == \A s \in DOMAIN holdings : RLe(Zero, holdings[s])

\* C3: with non-negative initial holdings, no entry of the holdings map, of the
\* running copy inside a rebalance, or of a recorded snapshot is negative.
C3_SharesNonNegative ==
    NonNegative(initial_holdings) =>
        /\ NonNegative(current_holdings)
        /\ call.active => NonNegative(call.new_holdings.map)
        /\ \A k \in 1..Len(holdings_history) : NonNegative(holdings_history[k])

C3_Witness ==
    /\ pc = "done"
    /\ \E k \in 1..Len(executed_trades) :
          /\ executed_trades[k].action = "sell"
          /\ current_holdings[executed_trades[k].symbol] = Zero

Clamp01(q) == IF RLt(q, Zero) THEN Zero ELSE IF RLt(One, q) THEN One ELSE q

AtTrade(action) ==
    /\ pc = "trades"
    /\ call.trades # <<>>
    /\ Head(call.trades).action = action

\* the head trade passes the price checks and has a numeric quantity
Sizable ==
    /\ Priced(Head(call.trades).symbol, call.trade_date)
    /\ RLt(Zero, Close(Head(call.trades).symbol, call.trade_date))
    /\ Head(call.trades).quantity # None

HeldNow(symbol) ==
    IF symbol \in DOMAIN call.new_holdings.map THEN call.new_holdings.map[symbol] ELSE Zero

FrameUntouched ==
    /\ call'.new_holdings = call.new_holdings
    /\ call'.new_cash = call.new_cash
    /\ call'.num_trades = call.num_trades
    /\ call'.winning_trades = call.winning_trades
    /\ call'.losing_trades = call.losing_trades
    /\ call'.executed = call.executed

\* C4: a BUY is executed only if the running cash of that moment covers
\* gross + commission + slippage; when it does not, the trade changes nothing.
C4_BuyLegality ==
    [][ (AtTrade("buy") /\ pc' = "trades") =>
          IF ~Sizable THEN FrameUntouched
          ELSE LET gross == RMul(Clamp01(Head(call.trades).quantity), call.portfolio_value)
                   needed == RAdd(gross, RAdd(RMul(gross, backtest_config.commission),
                                              RMul(gross, backtest_config.slippage)))
               IN /\ ~FrameUntouched => RLe(needed, call.new_cash)
                  /\ RLt(call.new_cash, needed) =>
                        FrameUntouched /\ UNCHANGED <<ledger, counters, executed_trades>>
      ]_vars

C4_Witness ==
    /\ pc = "trades"
    /\ call.executed # <<>>
    /\ Last(call.executed).action = "buy"
    /\ RLt(call.new_cash, cash)

\* C5: a SELL sells min(held, requested) shares; when the request exceeds the
\* holding the holding goes to 0 and the logged quantity_shares is the pre-trade
\* holding, with gross value and costs computed on the sold quantity.
C5_SellCap ==
    [][ (AtTrade("sell") /\ Sizable /\ pc' = "trades") =>
          LET t == Head(call.trades)
              price == Close(t.symbol, call.trade_date)
              requested == RDiv(RMul(Clamp01(t.quantity), call.portfolio_value), price)
              held == HeldNow(t.symbol)
              sold == IF RLt(held, requested) THEN held ELSE requested
          IN IF RLt(Zero, requested) /\ RLt(Zero, sold)
             THEN LET e == Last(call'.executed)
                  IN /\ Len(call'.executed) = Len(call.executed) + 1
                     /\ call'.new_holdings.map[t.symbol] = RSub(held, sold)
                     /\ e.quantity_shares = sold
                     /\ e.gross_value = RMul(sold, price)
                     /\ e.commission = RMul(e.gross_value, backtest_config.commission)
                     /\ e.slippage = RMul(e.gross_value, backtest_config.slippage)
                     /\ e.total_cost = RAdd(e.commission, e.slippage)
                     /\ RLt(held, requested) =>
                           /\ call'.new_holdings.map[t.symbol] = Zero
                           /\ e.quantity_shares = held
             ELSE FrameUntouched
      ]_vars

\* a SELL that asked for more than was held has been executed
C5_Witness ==
    /\ pc = "trades"
    /\ call.executed # <<>>
    /\ LET e == Last(call.executed)
       IN /\ e.action = "sell"
          /\ RLt(e.gross_value, RMul(e.weight_fraction, call.portfolio_value))
          /\ call.new_holdings.map[e.symbol] = Zero

Period ==
    LET f == strategy_config.rebalance_frequency
    IN IF f = "daily" THEN 1 ELSE IF f = "weekly" THEN 7
       ELSE IF f = "quarterly" THEN 90 ELSE 30

\* C6: two consecutive recorded rebalances are at least the period of the
\* configured frequency apart, in days.
C6_Cadence ==
    strategy_config.rebalance_frequency \in {"daily", "weekly", "monthly", "quarterly"} =>
        \A k \in 1..(Len(rebalance_details) - 1) :
            rebalance_details[k + 1].timestamp - rebalance_details[k].timestamp >= Period

C6_Witness ==
    /\ pc = "done"
    /\ strategy_config.rebalance_frequency = "weekly"
    /\ warnings # <<>>
    /\ Len(rebalance_details) >= 2
    /\ Len(rebalance_details) + Len(warnings) < Len(simulation_dates) - 1

\* C7: on the last simulated date the strategy is not called and nothing is traded.
C7_NoLastDayRebalance ==
    [][ (pc = "loop" /\ i = Len(simulation_dates)) =>
          /\ pc' \in {"done", "error"}
          /\ UNCHANGED <<ledger, counters, executed_trades, rebalance_details,
                         last_rebalance_date, warnings, call>>
      ]_vars

\* the run ended although a rebalance was due on its last date
C7_Witness ==
    /\ pc = "done"
    /\ last_rebalance_date = None
    /\ warnings # <<>>
    /\ Len(timestamps) = Len(simulation_dates)

Committed == <<counters, executed_trades, rebalance_details, last_rebalance_date>>

\* C8: a rebalance attempt that raises leaves holdings and cash as snapshotted
\* for that date before the attempt, leaves counters, trade log, rebalance
\* records and last_rebalance_date untouched, and the loop moves to the next date;
\* while trades are being executed none of these is touched either.
C8_FailureAtomic ==
    [][ /\ warnings' # warnings =>
              /\ current_holdings' = holdings_history'[i]
              /\ RAdd(cash', ValueOn(current_holdings', DOMAIN current_holdings',
                                     timestamps'[i])) = portfolio_values'[i]
              /\ UNCHANGED Committed
              /\ pc' = "loop"
              /\ i' = i + 1
        /\ pc' = "trades" => UNCHANGED <<ledger, Committed>>
      ]_vars

\* trade execution raised on the previous date and the loop is at the next one
C8_Witness ==
    /\ pc = "loop"
    /\ warnings # <<>>
    /\ Last(warnings).e = "TypeError"
    /\ Last(warnings).date = simulation_dates[i - 1]
    /\ Len(holdings_history) = i - 1
    /\ executed_trades # <<>>

RECURSIVE ScheduledFrom(_, _)
ScheduledFrom(k, last) ==
    IF k >= Len(simulation_dates) THEN 0
    ELSE IF last = None \/ simulation_dates[k] - last[1] >= Period
         THEN 1 + ScheduledFrom(k + 1, <<simulation_dates[k]>>)
         ELSE ScheduledFrom(k + 1, last)

\* rebalances of the run in which no call fails
Scheduled == ScheduledFrom(1, None)

OneFailure == pc = "done" /\ Len(warnings) = 1

\* C9 as stated: one failed call leaves one recorded rebalance fewer than scheduled.
C9_OneFewer == OneFailure => Len(rebalance_details) = Scheduled - 1

\* C9 amended: the failed date records no rebalance and the attempt is repeated on
\* the next simulated date (unless that is the last), so the run ends with the
\* scheduled number of recorded rebalances or one fewer.
C9_Retried ==
    OneFailure =>
        LET d == warnings[1].date
            k == CHOOSE j \in 1..Len(simulation_dates) : simulation_dates[j] = d
        IN /\ \A r \in 1..Len(rebalance_details) : rebalance_details[r].timestamp # d
           /\ k + 1 < Len(simulation_dates) =>
                 \E r \in 1..Len(rebalance_details) :
                     rebalance_details[r].timestamp = simulation_dates[k + 1]
           /\ Len(rebalance_details) \in {Scheduled - 1, Scheduled}

C9_Witness ==
    /\ OneFailure
    /\ Scheduled >= 2
    /\ Len(rebalance_details) = Scheduled

SkipCase ==
    LET t == Head(call.trades)
    IN IF ~Priced(t.symbol, call.trade_date) THEN TRUE
       ELSE IF RLe(Close(t.symbol, call.trade_date), Zero) THEN TRUE
       ELSE IF t.quantity = None THEN FALSE
       ELSE LET gross == RMul(Clamp01(t.quantity), call.portfolio_value)
                needed == RAdd(gross, RAdd(RMul(gross, backtest_config.commission),
                                           RMul(gross, backtest_config.slippage)))
            IN RLe(gross, Zero) \/ (t.action = "buy" /\ RLt(call.new_cash, needed))

\* C10: a trade without a price today, with a price <= 0, with a dollar value
\* <= 0 or a BUY the cash does not cover is passed over: nothing raises, cash,
\* holdings, counters and the trade log stay as they are, and the loop goes on
\* with the rest of the list.
C10_PerTradeSkip ==
    [][ (pc = "trades" /\ call.trades # <<>> /\ SkipCase) =>
          /\ call' = [call EXCEPT !.trades = Tail(call.trades)]
          /\ pc' = "trades"
          /\ UNCHANGED <<ledger, Committed, warnings>>
      ]_vars

\* the first trade of a list was passed over and the second one executed
C10_Witness ==
    /\ pc = "trades"
    /\ call.trades = <<>>
    /\ Len(call.strategy_result.trades) = 2
    /\ Len(call.executed) = 1
    /\ LET first == call.strategy_result.trades[1]
           e == call.executed[1]
       IN first.symbol # e.symbol \/ first.action # e.action

NoPriceHistory == DOMAIN price_history = {}

\* dates of the provider's data that lie in the configured period
DatesInPeriod ==
    { d \in UNION { DOMAIN price_history[s] : s \in DOMAIN price_history } :
        backtest_config.start_date <= d /\ d <= backtest_config.end_date }

\* C11: with no price history, or with fewer than 2 dates of the data inside
\* [start_date, end_date], the run ends in the matching ValueError: the strategy
\* is never called, no trade is executed, nothing is recorded, no result exists.
C11_FatalUpfront ==
    (NoPriceHistory \/ Cardinality(DatesInPeriod) < 2) =>
        /\ pc \in {"start", "error"}
        /\ pc = "error" =>
              error = IF NoPriceHistory THEN "No price history available for backtesting"
                      ELSE "Insufficient data for backtesting period"
        /\ execute_args = None
        /\ ~call.active
        /\ warnings = <<>>
        /\ executed_trades = <<>> /\ rebalance_details = <<>>
        /\ total_trades = 0 /\ portfolio_values = <<>>
        /\ result = None

\* the data has two dates or more, the period fewer than two of them
C11_Witness ==
    /\ pc = "error"
    /\ error = "Insufficient data for backtesting period"
    /\ Cardinality(UNION { DOMAIN price_history[s] : s \in DOMAIN price_history }) >= 2
    /\ Cardinality(DatesInPeriod) = 1

\* this step calls strategy.execute
StrategyCalled == pc = "loop" /\ (pc' = "trades" \/ Len(warnings') > Len(warnings))

\* C12: on every strategy call at the simulated date t the history handed over
\* has, for every symbol of the data, only rows of the data dated <= t, and
\* current_prices holds only closes of date t.
C12_NoLookAhead ==
    [][ StrategyCalled =>
          LET t == simulation_dates[i]
              handed == execute_args'.price_history
              prices == execute_args'.current_prices
          IN /\ DOMAIN handed = DOMAIN price_history
             /\ \A s \in DOMAIN handed : \A d \in DOMAIN handed[s] :
                    d <= t /\ Priced(s, d) /\ handed[s][d] = price_history[s][d]
             /\ \A s \in DOMAIN prices : Priced(s, t) /\ prices[s] = Close(s, t)
      ]_vars

\* a call was made while the data had later rows, and a symbol had no row that day
C12_Witness ==
    /\ execute_args # None
    /\ \E s \in DOMAIN price_history :
          DOMAIN execute_args.price_history[s] # DOMAIN price_history[s]
    /\ DOMAIN execute_args.current_prices # DOMAIN price_history

\* C13: once the simulation of an input with price history and 2 aligned dates or
\* more is through, run_backtest returns (does not raise) a BacktestResult that
\* carries portfolio_values, daily_returns, timestamps, holdings_history,
\* rebalance_details, executed_trades, the trade counters and the scalar metrics.
C13_ReturnsResult ==
    [][ pc = "done" =>
          /\ pc' = "returned"
          /\ \A key \in DOMAIN SimulationResult :
                key \in DOMAIN result' /\ result'[key] = SimulationResult[key]
          /\ \A key \in DOMAIN performance_metrics' :
                key \in DOMAIN result' /\ result'[key] = performance_metrics'[key]
      ]_vars

ParallelSeries == {"portfolio_values", "daily_returns", "timestamps", "holdings_history"}

\* C14: the dict of to_dict() holds every scalar field of the result and all four
\* parallel series: portfolio_values, daily_returns, timestamps, holdings_history.
C14_Lossless ==
    serialized # None =>
        /\ ParallelSeries \subseteq DOMAIN serialized
        /\ \A key \in DOMAIN result : key \in DOMAIN serialized

FlatPrices ==
    \A s \in DOMAIN initial_holdings : \A k \in 1..Len(simulation_dates) :
        /\ Priced(s, simulation_dates[k])
        /\ Close(s, simulation_dates[k]) = Close(s, simulation_dates[1])

\* no call of the strategy returned or tried a trade
NoTradeEmitted ==
    /\ \A k \in 1..Len(rebalance_details) : Len(rebalance_details[k].trades) = 0
    /\ \A k \in 1..Len(warnings) : warnings[k].e = "strategy"

\* C16: with flat prices of the held symbols and a strategy that never emits a
\* trade, every recorded portfolio value is the same, every daily return is 0,
\* and total_return, volatility, sharpe_ratio and max_drawdown are all 0.
C16_FlatRun ==
    (performance_metrics # None /\ FlatPrices /\ NoTradeEmitted) =>
        /\ \A k \in 1..Len(portfolio_values) : portfolio_values[k] = portfolio_values[1]
        /\ \A k \in 1..Len(daily_returns) : daily_returns[k] = Zero
        /\ performance_metrics.total_return = Zero
        /\ performance_metrics.volatility = Exact(Zero)
        /\ performance_metrics.sharpe_ratio = Exact(Zero)
        /\ performance_metrics.max_drawdown = Zero

\* the trades of the recorded rebalances
RecordedTrades ==
    UNION { { rebalance_details[k].trades[j] : j \in 1..Len(rebalance_details[k].trades) } :
            k \in 1..Len(rebalance_details) }

\* C17: with a bundled strategy (Bollinger, ML-attractiveness, mean-reversion,
\* momentum) every trade of a rebalance_details entry has a price that is not
\* None and is > 0, and a timestamp that is a string.
C17_TradeDiagnostics ==
    strategy.name \in BundledNames =>
        \A t \in RecordedTrades :
            /\ t.price # None
            /\ RLt(Zero, t.price)
            /\ DOMAIN t.timestamp = {"isoformat"}

\* one of the three dicts handed to execute on the current date is empty
EmptyInput ==
    \/ DOMAIN current_holdings = {}
    \/ DOMAIN price_history = {}
    \/ \A s \in DOMAIN price_history : ~Priced(s, simulation_dates[i])

\* C18: a bundled strategy called with empty weights, empty price history or
\* empty current prices raises, which the engine logs and skips; a run with
\* empty initial holdings skips every rebalance, executes no trade, records no
\* rebalance, and its simulation runs through every date.
C18_Validation ==
    [][ strategy.name \in BundledNames =>
          /\ (StrategyCalled /\ EmptyInput) =>
                /\ pc' # "trades"
                /\ Len(warnings') = Len(warnings) + 1
                /\ Last(warnings').e = "strategy"
          /\ initial_holdings = <<>> =>
                /\ pc' # "trades"
                /\ rebalance_details' = <<>>
                /\ executed_trades' = <<>>
                /\ total_trades' = 0
                /\ error' # "ZeroDivisionError"
                /\ pc' = "done" =>
                      /\ Len(timestamps') = Len(simulation_dates')
                      /\ Len(warnings') = Len(simulation_dates') - 1
      ]_vars

\* a simulation with empty initial holdings ran through, every rebalance skipped
C18_Witness ==
    /\ strategy.name \in BundledNames
    /\ initial_holdings = <<>>
    /\ pc = "done"
    /\ Len(warnings) = 2
    /\ execute_args.portfolio_weights = <<>>

\* C19: the momentum strategy returns, for every symbol of the current or the
\* target weights whose weight delta exceeds 1e-6 in absolute value, one trade
\* whose quantity is |target - current|, BUY for a positive delta, SELL for a
\* negative one.
C19_MomentumTrades ==
    (strategy.name = "Momentum" /\ call.active) =>
        LET current == call.current_weights
            target == call.strategy_result.new_weights
            trades == call.strategy_result.trades
        IN \A s \in DOMAIN current \cup DOMAIN target :
              LET delta == RSub(Get(target, s), Get(current, s))
                  mine == { k \in 1..Len(trades) : trades[k].symbol = s }
              IN RLt(Tiny, RAbs(delta)) =>
                    /\ Cardinality(mine) = 1
                    /\ \A k \in mine :
                          /\ trades[k].quantity = RAbs(delta)
                          /\ trades[k].action = IF RLt(Zero, delta) THEN "buy" ELSE "sell"

\* C20: the weights handed to the strategy have exactly the held symbols as
\* keys; each is the symbol's position value divided by the invested value, cash
\* left out; they sum to 1 when the invested value is > 0 and are all 0 when it
\* is <= 0.
C20_Weights ==
    [][ StrategyCalled =>
          LET t == simulation_dates[i]
              held == DOMAIN current_holdings
              invested == ValueOn(current_holdings, held, t)
              w == execute_args'.portfolio_weights
          IN /\ DOMAIN w = held
             /\ IF RLt(Zero, invested)
                THEN /\ \A s \in held :
                          w[s] = IF Priced(s, t)
                                 THEN RDiv(RMul(current_holdings[s], Close(s, t)), invested)
                                 ELSE Zero
                     /\ RSum(w, held) = One
                ELSE \A s \in held : w[s] = Zero
      ]_vars

\* weights were handed over while cash was held beside two positions
C20_Witness ==
    /\ execute_args # None
    /\ pc = "trades"
    /\ RLt(Zero, cash)
    /\ \E s \in DOMAIN execute_args.portfolio_weights :
          /\ RLt(Zero, execute_args.portfolio_weights[s])
          /\ RLt(execute_args.portfolio_weights[s], One)

\* the simulation went through its last date
SimulationEnded == pc \in {"done", "returned"} \/ (pc = "error" /\ error = "TypeError")

\* C21: at the end of a run portfolio_values, timestamps and holdings_history
\* have one entry per date of the data inside the period, the timestamps are
\* those dates in strictly ascending order, and daily_returns has one entry
\* fewer, whichever rebalances failed or were skipped.
C21_SeriesShape ==
    SimulationEnded =>
        /\ Len(timestamps) = Cardinality(DatesInPeriod)
        /\ { timestamps[k] : k \in 1..Len(timestamps) } = DatesInPeriod
        /\ \A k \in 1..(Len(timestamps) - 1) : timestamps[k] < timestamps[k + 1]
        /\ Len(portfolio_values) = Len(timestamps)
        /\ Len(holdings_history) = Len(timestamps)
        /\ Len(daily_returns) = Len(timestamps) - 1

\* a run ended in which one rebalance failed, one succeeded and one date had none
C21_Witness ==
    /\ pc = "done"
    /\ warnings # <<>>
    /\ rebalance_details # <<>>
    /\ Len(warnings) + Len(rebalance_details) < Len(simulation_dates) - 1

\* the trigger of the claim, on the date the loop is at
Due ==
    /\ i < Len(simulation_dates)
    /\ IF last_rebalance_date = None THEN TRUE
       ELSE simulation_dates[i] - last_rebalance_date[1] >= Period

\* the previous date's call failed
FailedYesterday ==
    IF i > 1 /\ warnings # <<>> THEN Last(warnings).date = simulation_dates[i - 1] ELSE FALSE

\* the iteration gets as far as the trigger (the daily return was computed)
ReachesTrigger == pc = "loop" /\ ~(i > 1 /\ prev_portfolio_value = Zero)

\* C22: on a date whose iteration reaches the trigger, the strategy is called
\* if and only if the date is not the last one and either no rebalance has
\* succeeded yet or at least the period has passed since the last successful
\* one; last_rebalance_date changes only when a rebalance succeeds, to that
\* date, and never when a call fails, so that after a failed call the strategy
\* is called again on the next date unless that is the last.
C22_Trigger ==
    [][ /\ ReachesTrigger => (StrategyCalled <=> Due)
        /\ (ReachesTrigger /\ FailedYesterday /\ i < Len(simulation_dates)) => StrategyCalled
        /\ Len(warnings') > Len(warnings) => last_rebalance_date' = last_rebalance_date
        /\ last_rebalance_date' # last_rebalance_date =>
              /\ Len(rebalance_details') = Len(rebalance_details) + 1
              /\ last_rebalance_date' = <<simulation_dates[i]>>
      ]_vars

\* weekly run: a call failed, the next date's call succeeded, and some date in
\* between two due dates saw no call
C22_Witness ==
    /\ pc = "done"
    /\ strategy_config.rebalance_frequency = "weekly"
    /\ Len(warnings) = 1
    /\ rebalance_details # <<>>
    /\ \E k \in 1..(Len(simulation_dates) - 1) :
          /\ warnings[1].date = simulation_dates[k]
          /\ rebalance_details[1].timestamp = simulation_dates[k + 1]
    /\ Len(rebalance_details) + Len(warnings) < Len(simulation_dates) - 1

\* V: the initial holdings at the closes of the first simulated date
InitialValue ==
    ValueOn(initial_holdings, DOMAIN initial_holdings, simulation_dates[1])

\* C23: before the first date is processed the cash is max(initial_capital - V, 0),
\* V counting only the symbols priced on the first simulated date; the first
\* recorded portfolio value is initial_capital when V <= initial_capital and V
\* otherwise.
C23_InitialCash ==
    LET capital == backtest_config.initial_capital
    IN /\ (pc = "loop" /\ i = 1) =>
             cash = (IF RLt(Zero, RSub(capital, InitialValue))
                     THEN RSub(capital, InitialValue) ELSE Zero)
       /\ portfolio_values # <<>> =>
             portfolio_values[1] = (IF RLe(InitialValue, capital) THEN capital
                                    ELSE InitialValue)

\* holdings worth more than the capital, one of them without a price that day
C23_Witness ==
    /\ portfolio_values # <<>>
    /\ RLt(backtest_config.initial_capital, portfolio_values[1])
    /\ \E s \in DOMAIN initial_holdings :
          ~Priced(s, simulation_dates[1]) /\ RLt(Zero, initial_holdings[s])

\* portfolio value of the committed ledger at the closes of the rebalance date
ValueBeforeRebalance ==
    RAdd(cash, ValueOn(current_holdings, DOMAIN current_holdings, call.trade_date))

\* C24: while the trades of a rebalance are executed, the value used for sizing
\* is the portfolio value recorded for that date before any of its trades; an
\* executed trade's weight_fraction is its quantity clamped to [0,1], a BUY's
\* gross value is weight_fraction * that value, and a SELL's is that amount
\* capped by the value of the shares held, whatever was executed before it in
\* the same rebalance.
C24_Sizing ==
    [][ (pc = "trades" /\ call.trades # <<>> /\ pc' = "trades") =>
          /\ ValueBeforeRebalance = Last(portfolio_values)
          /\ call.trade_date = Last(timestamps)
          /\ Len(call'.executed) > Len(call.executed) =>
                LET t == Head(call.trades)
                    e == Last(call'.executed)
                    dollar_value == RMul(Clamp01(t.quantity), ValueBeforeRebalance)
                    held_value == RMul(HeldNow(t.symbol), Close(t.symbol, call.trade_date))
                IN /\ e.weight_fraction = Clamp01(t.quantity)
                   /\ e.gross_value = IF t.action = "sell" /\ RLt(held_value, dollar_value)
                                      THEN held_value ELSE dollar_value
      ]_vars

\* the second trade of a rebalance was executed, sized on the recorded value,
\* after a first one that cost something
C24_Witness ==
    /\ pc = "trades"
    /\ Len(call.executed) = 2
    /\ RLt(Zero, call.executed[1].total_cost)
    /\ call.executed[2].gross_value =
          RMul(call.executed[2].weight_fraction, Last(portfolio_values))
    /\ RLt(RAdd(call.new_cash,
                ValueOn(call.new_holdings.map, DOMAIN call.new_holdings.map,
                        call.trade_date)),
           Last(portfolio_values))

\* the counters of the running call are as they were
NeitherCounted ==
    /\ call'.winning_trades = call.winning_trades
    /\ call'.losing_trades = call.losing_trades

\* C25: an executed SELL is counted as winning exactly when commission +
\* slippage < 0.05 and as losing otherwise; an executed BUY and a skipped trade
\* are counted as neither.
C25_WinningLosing ==
    [][ (pc = "trades" /\ call.trades # <<>> /\ pc' = "trades") =>
          IF Len(call'.executed) > Len(call.executed)
             /\ Last(call'.executed).action = "sell"
          THEN IF RLt(RAdd(backtest_config.commission, backtest_config.slippage), <<1, 20>>)
               THEN /\ call'.winning_trades = call.winning_trades + 1
                    /\ call'.losing_trades = call.losing_trades
               ELSE /\ call'.winning_trades = call.winning_trades
                    /\ call'.losing_trades = call.losing_trades + 1
          ELSE NeitherCounted
      ]_vars

\* C26: while the trades of date i are executed and when they are committed,
\* holdings_history[i] and portfolio_values[i] are the ledger as it was before
\* the rebalance; the ledger changed by the trades is recorded only when the
\* next date is appended; entries already appended never change.
C26_Snapshots ==
    [][ /\ \A k \in 1..Len(holdings_history) :
              /\ Len(holdings_history') >= k
              /\ holdings_history'[k] = holdings_history[k]
              /\ portfolio_values'[k] = portfolio_values[k]
        /\ pc = "trades" =>
              /\ Len(holdings_history) = i
              /\ holdings_history[i] = current_holdings
              /\ portfolio_values[i] =
                    RAdd(cash, ValueOn(current_holdings, DOMAIN current_holdings,
                                       timestamps[i]))
              /\ current_holdings' # current_holdings =>
                    /\ current_holdings' = call.new_holdings.map
                    /\ pc' = "loop"
                    /\ i' = i + 1
        /\ Len(holdings_history') > Len(holdings_history) =>
              /\ Len(holdings_history') = i
              /\ holdings_history'[i] = current_holdings
      ]_vars

\* the trades of a date changed the holdings: its own snapshot shows the
\* holdings before them, the next date's snapshot the holdings after
C26_Witness ==
    /\ rebalance_details # <<>>
    /\ executed_trades # <<>>
    /\ \E k \in 1..(Len(holdings_history) - 1) :
          /\ rebalance_details[1].timestamp = timestamps[k]
          /\ holdings_history[k] = initial_holdings
          /\ holdings_history[k + 1] # holdings_history[k]
          /\ holdings_history[k + 1] = current_holdings

\* commission + slippage of the trades of a log
RECURSIVE Costs(_)
Costs(log) == IF log = <<>> THEN Zero ELSE RAdd(Head(log).total_cost, Costs(Tail(log)))

\* cash plus shares * close over the symbols priced on the date
Worth(money, holdings, date) == RAdd(money, ValueOn(holdings, DOMAIN holdings, date))

\* C27: during a rebalance on date t the running cash plus the running holdings
\* at the closes of t equal the value before the rebalance minus the total_cost
\* of the trades executed so far, and the committed ledger equals the value
\* before minus the total_cost of all executed trades of the rebalance; with
\* zero rates the value is unchanged.
C27_OnlyCosts ==
    [][ pc = "trades" =>
          LET t == call.trade_date
              before == Worth(cash, current_holdings, t)
          IN /\ Worth(call.new_cash, call.new_holdings.map, t)
                    = RSub(before, Costs(call.executed))
             /\ Len(rebalance_details') > Len(rebalance_details) =>
                    /\ Worth(cash', current_holdings', t) = RSub(before, Costs(call.executed))
                    /\ (backtest_config.commission = Zero /\ backtest_config.slippage = Zero)
                          => Worth(cash', current_holdings', t) = before
      ]_vars

\* a rebalance with a BUY and a SELL, both with costs, was committed on a date
\* on which a held symbol has no price
C27_Witness ==
    /\ pc = "loop"
    /\ Len(rebalance_details) = 1
    /\ Len(executed_trades) = 2
    /\ RLt(Zero, executed_trades[1].total_cost)
    /\ executed_trades[1].action # executed_trades[2].action
    /\ Last(rebalance_details).timestamp = simulation_dates[i - 1]
    /\ Worth(cash, current_holdings, simulation_dates[i - 1])
          = RSub(portfolio_values[i - 1], Costs(executed_trades))
    /\ \E s \in DOMAIN current_holdings :
          ~Priced(s, simulation_dates[i - 1]) /\ RLt(Zero, current_holdings[s])

SellEntries(log) == Cardinality({ k \in 1..Len(log) : log[k].action = "sell" })

CountersConsistent ==
    /\ total_trades = Len(executed_trades)
    /\ winning_trades + losing_trades = SellEntries(executed_trades)
    /\ winning_trades + losing_trades <= total_trades

\* the strategy call of the date returned and the date's attempt ends with this step
AttemptEnds == pc = "trades" /\ pc' # "trades"

Needed ==
    LET gross == RMul(Clamp01(Head(call.trades).quantity), call.portfolio_value)
    IN RAdd(gross, RAdd(RMul(gross, backtest_config.commission),
                        RMul(gross, backtest_config.slippage)))

\* C29: the trades of a rebalance are taken one by one from the head of the
\* list; the running cash is the cash before the rebalance plus the net cash
\* deltas of the trades executed so far in it, and a BUY is executed exactly
\* when that running cash covers it, whatever trades follow in the list: an
\* earlier SELL can fund it, a later one cannot.
C29_ListOrder ==
    [][ (pc = "trades" /\ call.trades # <<>> /\ pc' = "trades") =>
          /\ call'.trades = Tail(call.trades)
          /\ call.new_cash = RAdd(cash, Deltas(call.executed))
          /\ \/ call'.executed = call.executed
             \/ /\ Len(call'.executed) = Len(call.executed) + 1
                /\ SubSeq(call'.executed, 1, Len(call.executed)) = call.executed
                /\ Last(call'.executed).symbol = Head(call.trades).symbol
                /\ Last(call'.executed).action = Head(call.trades).action
          /\ (AtTrade("buy") /\ Sizable) =>
                ((Len(call'.executed) > Len(call.executed))
                    <=> (RLt(Zero, Needed) /\ RLe(Needed, call.new_cash)))
      ]_vars

\* the strategy listed a BUY before a SELL: the BUY was skipped for lack of
\* cash and the SELL then brought in more than the BUY needed
C29_Witness ==
    /\ pc = "trades"
    /\ call.trades = <<>>
    /\ Len(call.strategy_result.trades) = 2
    /\ call.strategy_result.trades[1].action = "buy"
    /\ call.strategy_result.trades[1].quantity = Half
    /\ Len(call.executed) = 1
    /\ call.executed[1].action = "sell"
    /\ RLt(cash, RMul(Half, call.portfolio_value))
    /\ RLe(RMul(Half, call.portfolio_value), call.new_cash)

\* C30: with initial_capital > 0, every recorded portfolio value that is
\* followed by another date is non-zero, and the loop does not stop in a
\* division by zero.
C30_NeverAborts ==
    RLt(Zero, backtest_config.initial_capital) =>
        /\ \A k \in 1..Len(portfolio_values) :
              k < Len(simulation_dates) => portfolio_values[k] # Zero
        /\ ~(pc = "error" /\ error = "ZeroDivisionError")

====
